---- MODULE Spec2Model ----
(***************************************************************************)
(* Model of the pynsot command dispatchers `nsot changes list`,             *)
(* `nsot interfaces add` and `nsot interfaces list [addresses|networks]`.   *)
(*                                                                         *)
(* One behaviour is one process run: the shell picks a command line, click  *)
(* parses the options and runs the option callbacks, then invokes the       *)
(* command callback with ctx.params as keyword arguments.  The API client   *)
(* (ctx.obj) is external; the model records every call made on it.          *)
(***************************************************************************)
EXTENDS Integers, Sequences, FiniteSets, TLC

VARIABLES
    pc,          \* position of the process run
    cmd,         \* the command named on the command line
    argv,        \* the option values of the command line, before callbacks
    sub,         \* ctx.invoked_subcommand of the `list` group
    params,      \* ctx.params, the mapping the callbacks mutate and send
    calls,       \* calls made on the API client ctx.obj, in order
    subcalls,    \* calls made to callbacks.list_subcommand, in order
    interfaces,  \* get_result(ctx.obj.set_query(data)), the server's answer
    output,      \* text given to click.echo, as a sequence of code points
    outcome      \* how the run ended

vars ==
    <<pc, cmd, argv, sub, params, calls, subcalls, interfaces, output, outcome>>

----------------------------------------------------------------------------
(* Bounds of the model.                                                    *)

\* Longest result set the server returns to set_query.
MaxResults == 2
\* Most pass-through filter options given on one `interfaces list` line.
MaxFilters == 1
\* Most records in a bulk-add file.
MaxBulk == 1

----------------------------------------------------------------------------
(* Python values.  Every option value carries its type so that None, 0,    *)
(* '' and () stay distinct, as they are for `is None` and for truthiness.  *)

None == [kind |-> "None", val |-> 0]
PyInt(n) == [kind |-> "int", val |-> n]
PyStr(s) == [kind |-> "str", val |-> s]
PyBool(b) == [kind |-> "bool", val |-> b]
PyList(q) == [kind |-> "list", val |-> q]
PyDict(q) == [kind |-> "dict", val |-> q]

\* bool(v): the truth value Python gives v in `or`, `all([...])` and `if`.
Truthy(v) ==
    CASE v.kind = "None" -> FALSE
      [] v.kind = "int"  -> v.val /= 0
      [] v.kind = "str"  -> v.val /= ""
      [] v.kind = "bool" -> v.val
      [] v.kind = "list" -> v.val /= <<>>
      [] v.kind = "dict" -> v.val /= <<>>

\* dict.pop(key): the mapping without the key.
Pop(d, key) == [k \in (DOMAIN d) \ {key} |-> d[k]]

EmptyParams == [k \in {} |-> None]

----------------------------------------------------------------------------
(* Display field tables.                                                   *)

IF_DISPLAY_FIELDS ==
    [module |-> "cmd_interfaces", name |-> "DISPLAY_FIELDS",
     fields |-> << <<"id", "ID">>, <<"device", "Device">>, <<"name", "Name">>,
                   <<"mac_address", "MAC">>, <<"addresses", "Addresses">>,
                   <<"attributes", "Attributes">> >>]

IF_VERBOSE_FIELDS ==
    [module |-> "cmd_interfaces", name |-> "VERBOSE_FIELDS",
     fields |-> << <<"id", "ID">>, <<"device", "Device">>, <<"name", "Name">>,
                   <<"mac_address", "MAC">>, <<"addresses", "Addresses">>,
                   <<"speed", "Speed">>, <<"type", "Type">>,
                   <<"parent_id", "Parent ID">>,
                   <<"attributes", "Attributes">> >>]

CH_DISPLAY_FIELDS ==
    [module |-> "cmd_changes", name |-> "DISPLAY_FIELDS",
     fields |-> << <<"id", "ID">>, <<"change_at", "Change At">>,
                   <<"event", "Event">>, <<"resource_name", "Resource">>,
                   <<"user", "User">>, <<"resource_id", "Obj">> >>]

CH_VERBOSE_FIELDS ==
    [module |-> "cmd_changes", name |-> "VERBOSE_FIELDS",
     fields |-> CH_DISPLAY_FIELDS.fields \o << <<"resource", "Data">> >>]

\* Imported from cmd_networks; only its identity is used here.
NETWORK_DISPLAY_FIELDS ==
    [module |-> "cmd_networks", name |-> "DISPLAY_FIELDS"]

----------------------------------------------------------------------------
(* Invoking a callback: click calls callback(ctx, **ctx.params).  Python   *)
(* binds the keywords to the declared parameters and raises TypeError when *)
(* a keyword has no parameter or a parameter gets no value.  A callback    *)
(* declared with **kwargs accepts every keyword.                           *)

changes_list_signature ==
    {"event", "id", "limit", "offset", "resource_id", "resource_name",
     "site_id"}

interfaces_add_signature == {"attributes", "bulk_add", "device_id", "name"}

interfaces_list_signature ==
    {"attributes", "delimited", "device", "description", "grep", "id",
     "limit", "name", "natural_key", "offset", "parent_id", "query",
     "site_id", "speed", "type"}

Binds(kwargs, signature) == DOMAIN kwargs = signature

----------------------------------------------------------------------------
(* Option callbacks.                                                       *)

\* callbacks.process_site_id: a usage error when the site id is absent,
\* otherwise the value unchanged.
process_site_id(value) ==
    IF value = None THEN [ok |-> FALSE, value |-> None]
    ELSE [ok |-> TRUE, value |-> value]

\* A --site-id option declared without its callback.
site_id_without_callback(value) == [ok |-> TRUE, value |-> value]

\* The callback declared on each command's --site-id option.
changes_list_site_id_callback(value) == process_site_id(value)
interfaces_list_site_id_callback(value) == process_site_id(value)

----------------------------------------------------------------------------
Init ==
    /\ pc = "shell"
    /\ cmd = ""
    /\ argv = EmptyParams
    /\ sub = None
    /\ params = EmptyParams
    /\ calls = <<>>
    /\ subcalls = <<>>
    /\ interfaces = <<>>
    /\ output = <<>>
    /\ outcome = "running"

----------------------------------------------------------------------------
(* nsot changes list                                                       *)

ChangesIds == {None, PyStr(""), PyStr("7")}
SiteIds == {None, PyStr("1")}

\* cmd_changes.list: the table shown for this id.
changes_display_fields(id) ==
    IF id /= None THEN CH_VERBOSE_FIELDS ELSE CH_DISPLAY_FIELDS

\* click parses the command line and runs the option callbacks.
ParseChangesList ==
    /\ pc = "shell"
    /\ \E event \in {None, PyStr("Create")}, id \in ChangesIds,
          limit \in {None, PyStr("10")}, offset \in {None, PyStr("5")},
          resource_id \in {None, PyStr("1")},
          resource_name \in {None, PyStr("Network")}, site_id \in SiteIds :
          LET site == changes_list_site_id_callback(site_id)
              given == [event |-> event, id |-> id, limit |-> limit,
                        offset |-> offset, resource_id |-> resource_id,
                        resource_name |-> resource_name,
                        site_id |-> site_id]
          IN  /\ argv' = given
              /\ IF site.ok
                 THEN /\ params' = [given EXCEPT !.site_id = site.value]
                      /\ pc' = "changes.list"
                      /\ UNCHANGED outcome
                 ELSE /\ outcome' = "UsageError"
                      /\ pc' = "exit"
                      /\ UNCHANGED params
    /\ cmd' = "changes list"
    /\ UNCHANGED <<sub, calls, subcalls, interfaces, output>>

\* cmd_changes.list
ChangesList ==
    /\ pc = "changes.list"
    /\ IF Binds(params, changes_list_signature)
       THEN /\ calls' = Append(calls,
                   [verb |-> "list", data |-> params,
                    display_fields |-> changes_display_fields(params.id)])
            /\ outcome' = "ok"
       ELSE /\ outcome' = "TypeError"
            /\ UNCHANGED calls
    /\ pc' = "exit"
    /\ UNCHANGED <<cmd, argv, sub, params, subcalls, interfaces, output>>

----------------------------------------------------------------------------
(* nsot interfaces add                                                     *)

DeviceArgs == {None, PyInt(0), PyInt(5)}
NameArgs == {None, PyStr(""), PyStr("eth0")}

\* Values of --attributes after callbacks.transform_attributes.
AddAttributes == {PyDict(<<>>), PyDict(<< <<"owner", "jathan">> >>)}

\* Values of --bulk-add after callbacks.process_bulk_add: None when the
\* option is absent, otherwise the records of the file (none for an empty
\* file).
BulkRecord == [device |-> "1", name |-> "eth0"]
BulkArgs ==
    {None} \cup {PyList([i \in 1..n |-> BulkRecord]) : n \in 0..MaxBulk}

\* The keyword each declared option of `add` is stored under in ctx.params.
interfaces_add_options(attributes, bulk_add, device, name) ==
    [attributes |-> attributes, bulk_add |-> bulk_add, device |-> device,
     name |-> name]

\* cmd_interfaces.add: data = bulk_add or ctx.params
add_payload(bulk_add, ctx_params) ==
    IF Truthy(bulk_add) THEN bulk_add ELSE ctx_params

\* cmd_interfaces.add: the required-option check.
add_missing_name(bulk_add, name) == bulk_add = None /\ name = None

ParseInterfacesAdd ==
    /\ pc = "shell"
    /\ \E attributes \in AddAttributes, bulk_add \in BulkArgs,
          device \in DeviceArgs, name \in NameArgs :
          LET given ==
                  interfaces_add_options(attributes, bulk_add, device, name)
          IN  /\ argv' = given
              /\ params' = given
    /\ cmd' = "interfaces add"
    /\ pc' = "interfaces.add"
    /\ UNCHANGED <<sub, calls, subcalls, interfaces, output, outcome>>

\* cmd_interfaces.add
InterfacesAdd ==
    /\ pc = "interfaces.add"
    /\ IF ~Binds(params, interfaces_add_signature)
       THEN /\ outcome' = "TypeError"
            /\ UNCHANGED calls
       ELSE IF add_missing_name(params.bulk_add, params.name)
       THEN /\ outcome' = "UsageError"
            /\ UNCHANGED calls
       ELSE /\ calls' = Append(calls,
                   [verb |-> "add",
                    data |-> add_payload(params.bulk_add, params)])
            /\ outcome' = "ok"
    /\ pc' = "exit"
    /\ UNCHANGED <<cmd, argv, sub, params, subcalls, interfaces, output>>

----------------------------------------------------------------------------
(* Text: strings that are sorted, formatted and joined are sequences of    *)
(* code points.                                                            *)

Colon == 58
Comma == 44
Newline == 10

\* '%s' % n for a natural number n.
RECURSIVE Digits(_)
Digits(n) ==
    IF n < 10 THEN <<48 + n>> ELSE Digits(n \div 10) \o <<48 + (n % 10)>>

\* s < t for two strings, by code point.
RECURSIVE StrLess(_, _)
StrLess(s, t) ==
    IF t = <<>> THEN FALSE
    ELSE IF s = <<>> THEN TRUE
    ELSE IF Head(s) /= Head(t) THEN Head(s) < Head(t)
    ELSE StrLess(Tail(s), Tail(t))

\* (device, name) < (device', name') for two tuples.
TupleLess(p, q) == p[1] < q[1] \/ (p[1] = q[1] /\ StrLess(p[2], q[2]))

\* Insert x behind every element that is not greater than x.
RECURSIVE Insort(_, _)
Insort(s, x) ==
    IF s = <<>> THEN <<x>>
    ELSE IF TupleLess(x, Head(s)) THEN <<x>> \o s
    ELSE <<Head(s)>> \o Insort(Tail(s), x)

\* sorted(seq): a stable ascending sort that keeps every element.
RECURSIVE sorted(_)
sorted(s) ==
    IF s = <<>> THEN <<>> ELSE Insort(sorted(SubSeq(s, 1, Len(s) - 1)), s[Len(s)])

\* '%s:%s' % obj
format_key(obj) == Digits(obj[1]) \o <<Colon>> \o obj[2]

\* joiner.join(strings)
RECURSIVE join(_, _)
join(joiner, strings) ==
    IF strings = <<>> THEN <<>>
    ELSE IF Len(strings) = 1 THEN strings[1]
    ELSE strings[1] \o <<joiner>> \o join(joiner, Tail(strings))

----------------------------------------------------------------------------
(* nsot interfaces list [addresses | networks]                             *)

\* Pass-through filters of `interfaces list`, their defaults and the value
\* each takes when given on the command line.
FilterOptions ==
    {"attributes", "description", "limit", "offset", "parent_id", "speed",
     "type"}

FilterDefault(opt) == IF opt = "attributes" THEN PyList(<<>>) ELSE None

FilterGiven(opt) ==
    CASE opt = "attributes"  -> PyList(<<"owner=jathan">>)
      [] opt = "description" -> PyStr("uplink")
      [] opt = "limit"       -> PyStr("10")
      [] opt = "offset"      -> PyStr("5")
      [] opt = "parent_id"   -> PyInt(3)
      [] opt = "speed"       -> PyInt(20000)
      [] opt = "type"        -> PyInt(6)

FilterChoices == {S \in SUBSET FilterOptions : Cardinality(S) <= MaxFilters}

IdArgs == {None, PyInt(0), PyInt(7)}
QueryArgs == {None, PyStr(""), PyStr("foo=bar")}
Flags == {PyBool(FALSE), PyBool(TRUE)}
Subcommands == {None, PyStr("addresses"), PyStr("networks")}

\* Interface objects the server can return, as (device, name).
Eth0 == <<101, 116, 104, 48>>
Eth1 == <<101, 116, 104, 49>>
InterfaceObjects == [device : {2, 10}, name : {Eth0, Eth1}]
ResultSets ==
    UNION {[1..n -> InterfaceObjects] : n \in 0..MaxResults}

\* A payload stripped of every local display toggle.
list_payload_without_toggles(ctx_params) ==
    Pop(Pop(ctx_params, "delimited"), "grep")

\* cmd_interfaces.list: data = ctx.params; data.pop('delimited')
list_payload(ctx_params) == Pop(ctx_params, "delimited")

\* A table choice that tests the id for truth instead of `is not None`.
interfaces_display_fields_truthy_id(id, device, name) ==
    IF Truthy(id) \/ (Truthy(device) /\ Truthy(name))
    THEN IF_VERBOSE_FIELDS ELSE IF_DISPLAY_FIELDS

\* cmd_interfaces.list: the table shown for these filters.
interfaces_display_fields(id, device, name) ==
    IF id /= None \/ (Truthy(device) /\ Truthy(name))
    THEN IF_VERBOSE_FIELDS ELSE IF_DISPLAY_FIELDS

\* A verb choice that tests the query for truth instead of `is not None`.
list_verb_truthy_query(invoked_subcommand, query) ==
    IF invoked_subcommand = None
    THEN IF Truthy(query) THEN "set_query" ELSE "list"
    ELSE "none"

\* A verb choice that does not look at ctx.invoked_subcommand.
list_verb_ignoring_subcommand(invoked_subcommand, query) ==
    IF query /= None THEN "set_query" ELSE "list"

\* cmd_interfaces.list: the verb the group callback calls on the client.
list_verb(invoked_subcommand, query) ==
    IF invoked_subcommand = None
    THEN IF query /= None THEN "set_query" ELSE "list"
    ELSE "none"

\* A joiner read from the payload, where `delimited` is gone.
list_joiner_from_payload(delimited) == Newline

\* cmd_interfaces.list: joiner = ',' if delimited else '\n'
list_joiner(delimited) == IF Truthy(delimited) THEN Comma ELSE Newline

\* cmd_interfaces.list: the composite keys of a set-query result.
list_keys(result) ==
    LET tuples == sorted([i \in DOMAIN result |->
                             <<result[i].device, result[i].name>>])
    IN  [i \in DOMAIN tuples |-> format_key(tuples[i])]

ParseInterfacesList ==
    /\ pc = "shell"
    /\ \E given \in FilterChoices, delimited \in Flags, device \in DeviceArgs,
          grep \in Flags, id \in IdArgs, name \in NameArgs,
          natural_key \in Flags, query \in QueryArgs, site_id \in SiteIds,
          subcommand \in Subcommands :
          LET site == interfaces_list_site_id_callback(site_id)
              filter(opt) ==
                  IF opt \in given THEN FilterGiven(opt)
                  ELSE FilterDefault(opt)
              given_options ==
                  [attributes |-> filter("attributes"),
                   delimited |-> delimited,
                   device |-> device,
                   description |-> filter("description"),
                   grep |-> grep,
                   id |-> id,
                   limit |-> filter("limit"),
                   name |-> name,
                   natural_key |-> natural_key,
                   offset |-> filter("offset"),
                   parent_id |-> filter("parent_id"),
                   query |-> query,
                   site_id |-> site_id,
                   speed |-> filter("speed"),
                   type |-> filter("type")]
          IN  /\ argv' = given_options
              /\ sub' = subcommand
              /\ IF site.ok
                 THEN /\ params' =
                             [given_options EXCEPT !.site_id = site.value]
                      /\ pc' = "interfaces.list"
                      /\ UNCHANGED outcome
                 ELSE /\ outcome' = "UsageError"
                      /\ pc' = "exit"
                      /\ UNCHANGED params
    /\ cmd' = "interfaces list"
    /\ UNCHANGED <<calls, subcalls, interfaces, output>>

\* cmd_interfaces.list, the group callback.
InterfacesList ==
    /\ pc = "interfaces.list"
    /\ IF ~Binds(params, interfaces_list_signature)
       THEN /\ outcome' = "TypeError"
            /\ pc' = "exit"
            /\ UNCHANGED <<params, calls, interfaces, output>>
       ELSE LET data == list_payload(params)
                display_fields ==
                    interfaces_display_fields(params.id, params.device,
                                              params.name)
                verb == list_verb(sub, params.query)
            IN  /\ params' = data
                /\ CASE verb = "set_query" ->
                          \E result \in ResultSets :
                              /\ calls' = Append(calls,
                                     [verb |-> "set_query", data |-> data])
                              /\ interfaces' = result
                              /\ output' = Append(output,
                                     join(list_joiner(params.delimited),
                                          list_keys(result)))
                     [] verb = "list" ->
                          /\ calls' = Append(calls,
                                 [verb |-> "list", data |-> data,
                                  display_fields |-> display_fields,
                                  verbose_fields |-> IF_VERBOSE_FIELDS])
                          /\ UNCHANGED <<interfaces, output>>
                     [] OTHER -> UNCHANGED <<calls, interfaces, output>>
                /\ IF sub = None
                   THEN pc' = "exit" /\ outcome' = "ok"
                   ELSE pc' = "interfaces.list." \o sub.val
                        /\ UNCHANGED outcome
    /\ UNCHANGED <<cmd, argv, sub, subcalls>>

\* cmd_interfaces.addresses and cmd_interfaces.networks
list_subcommand_call(info_name) ==
    [fn |-> "callbacks.list_subcommand",
     display_fields |-> NETWORK_DISPLAY_FIELDS, my_name |-> info_name]

Addresses ==
    /\ pc = "interfaces.list.addresses"
    /\ subcalls' = Append(subcalls, list_subcommand_call("addresses"))
    /\ pc' = "exit"
    /\ outcome' = "ok"
    /\ UNCHANGED <<cmd, argv, sub, params, calls, interfaces, output>>

Networks ==
    /\ pc = "interfaces.list.networks"
    /\ subcalls' = Append(subcalls, list_subcommand_call("networks"))
    /\ pc' = "exit"
    /\ outcome' = "ok"
    /\ UNCHANGED <<cmd, argv, sub, params, calls, interfaces, output>>

----------------------------------------------------------------------------
Next ==
    \/ ParseChangesList
    \/ ChangesList
    \/ ParseInterfacesAdd
    \/ InterfacesAdd
    \/ ParseInterfacesList
    \/ InterfacesList
    \/ Addresses
    \/ Networks

Spec == Init /\ [][Next]_vars

----------------------------------------------------------------------------
(* Reading the run back: helpers of the properties below.                  *)

\* The pieces of text between separators (no piece for empty text).
RECURSIVE SplitOn(_, _)
SplitOn(text, seps) ==
    IF text = <<>> THEN <<>>
    ELSE LET cut == {i \in 1..Len(text) : text[i] \in seps}
         IN  IF cut = {} THEN <<text>>
             ELSE LET i == CHOOSE j \in cut : \A k \in cut : j <= k
                  IN  <<SubSeq(text, 1, i - 1)>>
                        \o SplitOn(SubSeq(text, i + 1, Len(text)), seps)

\* The number a string of decimal digits denotes.
RECURSIVE ParseNat(_)
ParseNat(digits) ==
    IF digits = <<>> THEN 0
    ELSE 10 * ParseNat(SubSeq(digits, 1, Len(digits) - 1))
           + (digits[Len(digits)] - 48)

\* The (device, name) a composite key "device:name" denotes.
KeyTuple(key) ==
    LET i == CHOOSE j \in 1..Len(key) :
                 key[j] = Colon /\ \A k \in 1..(j - 1) : key[k] /= Colon
    IN  <<ParseNat(SubSeq(key, 1, i - 1)), SubSeq(key, i + 1, Len(key))>>

\* The composite keys printed by a set query.
PrintedKeys == SplitOn(output[1], {Comma, Newline})

Count(text, c) == Cardinality({i \in 1..Len(text) : text[i] = c})

Exited(command) == pc = "exit" /\ cmd = command

\* An `interfaces list` run without sub-command whose callback has returned.
ListReturned == Exited("interfaces list") /\ sub = None /\ outcome = "ok"

\* A `interfaces list` run that has answered a set query.
SetQueryAnswered ==
    /\ ListReturned
    /\ Len(calls) = 1
    /\ calls[1].verb = "set_query"
    /\ Len(output) = 1

ListCalls == {i \in 1..Len(calls) : calls[i].verb = "list"}

VerboseTable == IF cmd = "changes list" THEN CH_VERBOSE_FIELDS
                ELSE IF_VERBOSE_FIELDS
SummaryTable == IF cmd = "changes list" THEN CH_DISPLAY_FIELDS
                ELSE IF_DISPLAY_FIELDS

----------------------------------------------------------------------------
(* Properties.                                                             *)

\* C1: after `interfaces list --query ...` without sub-command, whatever
\* result set set_query returned (duplicated (device, name) pairs included),
\* the printed composite keys are in ascending (device, name) order and no
\* key is printed twice.
C1_KeysSortedAndDeduplicated ==
    SetQueryAnswered =>
        \A i, j \in 1..Len(PrintedKeys) :
            i < j => /\ PrintedKeys[i] /= PrintedKeys[j]
                     /\ ~TupleLess(KeyTuple(PrintedKeys[j]),
                                   KeyTuple(PrintedKeys[i]))

\* C2 (as stated): for both list commands and every combination of the other
\* options, the table handed to the list verb is the verbose table when id
\* is present and the summary table when id is absent.
C2_IdAloneDecidesTable ==
    \A i \in ListCalls :
        calls[i].display_fields =
            IF argv.id /= None THEN VerboseTable ELSE SummaryTable

\* C2 (amended): the table handed to the list verb is the verbose table when
\* id is present, for both list commands; when id is absent it is the
\* summary table for `changes list`, and for `interfaces list` whenever
\* device or name is not given.
C2_IdDecidesTableUnlessDeviceAndName ==
    \A i \in ListCalls :
        /\ argv.id /= None => calls[i].display_fields = VerboseTable
        /\ (argv.id = None /\ cmd = "changes list")
               => calls[i].display_fields = SummaryTable
        /\ (argv.id = None /\ cmd = "interfaces list"
              /\ (argv.device = None \/ argv.name = None))
               => calls[i].display_fields = SummaryTable

C2_Witness ==
    /\ Exited("interfaces list")
    /\ argv.id = PyInt(0)
    /\ argv.device = None
    /\ ListCalls /= {}
    /\ \A i \in ListCalls : calls[i].display_fields = IF_VERBOSE_FIELDS

\* C3: for `interfaces list` without id, the table handed to the list verb
\* is the verbose table whenever both device and name are given (device 0
\* included), and the summary table when device or name is not given.
C3_DeviceAndNameSelectVerbose ==
    (cmd = "interfaces list" /\ argv.id = None) =>
        \A i \in ListCalls :
            calls[i].display_fields =
                IF argv.device /= None /\ argv.name /= None
                THEN IF_VERBOSE_FIELDS ELSE IF_DISPLAY_FIELDS

\* C4: `interfaces add` with an empty bulk file calls add exactly once, with
\* the empty sequence as payload.
C4_EmptyBulkFileIsSent ==
    (Exited("interfaces add") /\ argv.bulk_add = PyList(<<>>)) =>
        calls = << [verb |-> "add", data |-> PyList(<<>>)] >>

\* C5: `changes list` without a site id ends in a usage error and never
\* calls the list verb (nor any other verb) of the API client.
C5_ChangesListNeedsSite ==
    (cmd = "changes list" /\ argv.site_id = None) =>
        /\ pc = "exit"
        /\ outcome = "UsageError"
        /\ calls = <<>>

C5_Witness ==
    /\ Exited("changes list")
    /\ argv.site_id = None
    /\ argv.id /= None
    /\ outcome = "UsageError"

\* C6: an `interfaces list` run without sub-command never makes more than
\* one call on the API client, and once its callback has returned it has
\* made exactly one: set_query when the query option is present (whatever
\* id, device and name are), list when it is absent.
C6_ExactlyOneVerb ==
    (cmd = "interfaces list" /\ sub = None) =>
        /\ Len(calls) <= 1
        /\ ListReturned =>
              /\ Len(calls) = 1
              /\ calls[1].verb =
                    IF argv.query /= None THEN "set_query" ELSE "list"

C6_Witness ==
    /\ ListReturned
    /\ argv.query = PyStr("")
    /\ argv.id /= None
    /\ argv.device /= None
    /\ Len(calls) = 1
    /\ calls[1].verb = "set_query"

\* C7: `interfaces add` without bulk file and without name ends in a usage
\* error and never calls add; with a bulk file or a name it calls add
\* exactly once.
C7_AddOnceUnlessNameMissing ==
    Exited("interfaces add") =>
        IF argv.bulk_add = None /\ argv.name = None
        THEN outcome = "UsageError" /\ calls = <<>>
        ELSE Len(calls) = 1 /\ calls[1].verb = "add"

\* C8: the payload `interfaces list` passes to list or set_query has no
\* `delimited` key and has every other parsed option, grep and natural_key
\* included, with its parsed value.
C8_OnlyDelimitedStripped ==
    cmd = "interfaces list" =>
        \A i \in 1..Len(calls) :
            /\ "delimited" \notin DOMAIN calls[i].data
            /\ DOMAIN calls[i].data = (DOMAIN argv) \ {"delimited"}
            /\ \A k \in DOMAIN calls[i].data : calls[i].data[k] = argv[k]

C8_Witness ==
    /\ ListReturned
    /\ Len(calls) = 1
    /\ argv.delimited = PyBool(TRUE)
    /\ argv.grep = PyBool(TRUE)
    /\ argv.natural_key = PyBool(TRUE)
    /\ calls[1].data.grep = PyBool(TRUE)

\* C9: in set-query mode the composite keys are joined by commas when the
\* delimited flag was passed and by newlines when it was not, although the
\* payload no longer holds `delimited` when the keys are joined.
C9_JoinerFollowsDelimited ==
    SetQueryAnswered =>
        /\ "delimited" \notin DOMAIN calls[1].data
        /\ Len(PrintedKeys) = Len(interfaces)
        /\ output[1] =
              join(IF argv.delimited = PyBool(TRUE) THEN Comma ELSE Newline,
                   PrintedKeys)

C9_Witness ==
    /\ SetQueryAnswered
    /\ argv.delimited = PyBool(TRUE)
    /\ Len(interfaces) = 2
    /\ Count(output[1], Comma) = 1
    /\ Count(output[1], Newline) = 0

\* C10: when `interfaces list` is invoked with a sub-command, the group
\* callback calls neither list nor set_query and prints nothing, even with
\* the query option given; the sub-command makes one call to
\* list_subcommand, with the network display table.
C10_SubcommandBypassesGroupVerbs ==
    (cmd = "interfaces list" /\ sub /= None) =>
        /\ calls = <<>>
        /\ output = <<>>
        /\ Len(subcalls) <= 1
        /\ (pc = "exit" /\ outcome = "ok") =>
              /\ Len(subcalls) = 1
              /\ subcalls[1].fn = "callbacks.list_subcommand"
              /\ subcalls[1].display_fields = NETWORK_DISPLAY_FIELDS
              /\ subcalls[1].my_name = sub.val

C10_Witness ==
    /\ Exited("interfaces list")
    /\ sub = PyStr("networks")
    /\ argv.query = PyStr("foo=bar")
    /\ outcome = "ok"
    /\ Len(subcalls) = 1

====
